---- MODULE Spec2Model ----
(***************************************************************************)
(* Model of cv_analizer.py: the Settings loader, the                       *)
(* AzureContentUnderstandingClient (begin_analyze / poll_result) and the   *)
(* Streamlit main() that drives one analysis request.                      *)
(*                                                                         *)
(* Python str values are tuples of one-character strings, so that          *)
(* startswith, lower, rstrip and f-string concatenation are computed.      *)
(* Python None is the one-element tuple None, which no str can equal.      *)
(* A Python dict is a function whose DOMAIN is its key set.                *)
(* Time is counted in whole clock ticks.                                   *)
(***************************************************************************)
EXTENDS Integers, Sequences, FiniteSets, TLC

\* ------------------------------------------------------------------ bounds
\* largest timeout_seconds passed to poll_result
MaxTimeout == 2
\* largest polling_interval_seconds passed to poll_result
MaxInterval == 2
\* latest clock value at which poll_result may be entered
MaxStart == 1

\* ------------------------------------------------------- Python primitives
None == <<"<None>">>

\* bool(v) for an Optional[str]
Truthy(v) == v # None /\ v # <<>>

\* dict.get(k, default)
Get(d, k, default) == IF k \in DOMAIN d THEN d[k] ELSE default

\* d1.update(d2), as a new dict
Update(d1, d2) ==
  [k \in (DOMAIN d1) \cup (DOMAIN d2) |-> IF k \in DOMAIN d2 THEN d2[k] ELSE d1[k]]

EmptyDict == <<>>

UpperCase == <<"A","B","C","D","E","F","G","H","I","J","K","L","M",
               "N","O","P","Q","R","S","T","U","V","W","X","Y","Z">>
LowerCase == <<"a","b","c","d","e","f","g","h","i","j","k","l","m",
               "n","o","p","q","r","s","t","u","v","w","x","y","z">>

LowerChar(c) ==
  IF \E i \in 1..Len(UpperCase) : UpperCase[i] = c
  THEN LowerCase[CHOOSE i \in 1..Len(UpperCase) : UpperCase[i] = c]
  ELSE c

\* str.lower()
Lower_Identity(s) == s
Lower(s) == [i \in 1..Len(s) |-> LowerChar(s[i])]

\* str.startswith(prefix)
StartsWith_AnyCase(s, p) ==
  Len(s) >= Len(p) /\ Lower(SubSeq(s, 1, Len(p))) = Lower(p)
StartsWith(s, p) == Len(s) >= Len(p) /\ SubSeq(s, 1, Len(p)) = p

\* str.rstrip(ch)
RECURSIVE RStrip(_, _)
RStrip(s, ch) ==
  IF s # <<>> /\ s[Len(s)] = ch THEN RStrip(SubSeq(s, 1, Len(s) - 1), ch) ELSE s

\* ------------------------------------------------------------ string data
KEY_PLACEHOLDER ==
  <<"A","Z","U","R","E","_","C","O","N","T","E","N","T","_","U","N","D","E","R",
    "S","T","A","N","D","I","N","G","_","S","U","B","S","C","R","I","P","T","I",
    "O","N","_","K","E","Y">>
TOKEN_PLACEHOLDER ==
  <<"A","Z","U","R","E","_","C","O","N","T","E","N","T","_","U","N","D","E","R",
    "S","T","A","N","D","I","N","G","_","A","A","D","_","T","O","K","E","N">>
DEFAULT_API_VERSION == <<"2","0","2","4","-","1","2","-","0","1","-","p","r","e","v","i","e","w">>
X_MS_USERAGENT == <<"c","u","-","s","a","m","p","l","e","-","c","o","d","e">>
HTTPS_PREFIX == <<"h","t","t","p","s",":","/","/">>
HTTP_PREFIX == <<"h","t","t","p",":","/","/">>
BEARER == <<"B","e","a","r","e","r"," ">>
ANALYZERS_PATH ==
  <<"/","c","o","n","t","e","n","t","u","n","d","e","r","s","t","a","n","d","i",
    "n","g","/","a","n","a","l","y","z","e","r","s","/">>
ANALYZE_QUERY ==
  <<":","a","n","a","l","y","z","e","?","a","p","i","-","v","e","r","s","i","o","n","=">>
\* (the two content types are only ever compared whole: one token each)
OCTET_STREAM == <<"application/octet-stream">>
APPLICATION_JSON == <<"application/json">>

\* status spellings used by the remote service
S_succeeded == <<"s","u","c","c","e","e","d","e","d">>
S_Succeeded == <<"S","u","c","c","e","e","d","e","d">>
S_failed == <<"f","a","i","l","e","d">>
S_FAILED == <<"F","A","I","L","E","D">>
S_running == <<"r","u","n","n","i","n","g">>
S_Running == <<"R","u","n","n","i","n","g">>
S_notstarted == <<"n","o","t","s","t","a","r","t","e","d">>
S_cancelled == <<"c","a","n","c","e","l","l","e","d">>

\* ------------------------------------------------------- environment input
EndpointValues == {None, <<>>, <<"h","t","t","p","s",":","/","/","c","u","/">>}
ApiVersionValues == {DEFAULT_API_VERSION, <<>>}
KeyValues == {None, <<>>, KEY_PLACEHOLDER, <<"k","1">>}
TokenValues == {None, <<>>, TOKEN_PLACEHOLDER, <<"t","1">>}
AnalyzerValues == {None, <<>>, <<"c","v">>}

\* what the user typed in the text input, and what that path is on disk
Targets ==
  { <<>>,
    HTTPS_PREFIX \o <<"d">>,
    HTTP_PREFIX \o <<"d">>,
    <<"f","t","p",":","/","/","d">>,
    <<"H","T","T","P","S",":","/","/","d">>,
    <<"c","v",".","p","d","f">> }
PathKinds == {"absent", "file", "dir"}
FileContents == {<<>>, <<37, 80, 68, 70>>}

\* the (target, path) pairs drawn: a URL-looking name may exist on disk,
\* a plain name may be a file, a directory or nothing
PathsOf(target) ==
  IF target = <<"c","v",".","p","d","f">>
  THEN {p \in [kind : PathKinds, data : FileContents] : p.kind # "file" => p.data = <<>>}
  ELSE IF target = HTTPS_PREFIX \o <<"d">>
  THEN {[kind |-> "absent", data |-> <<>>], [kind |-> "file", data |-> <<37, 80, 68, 70>>]}
  ELSE {[kind |-> "absent", data |-> <<>>]}

OP_LOCATION == <<"h","t","t","p","s",":","/","/","c","u","/","o","p","/","7","?","v">>

\* HTTP status codes the service may answer with
PostCodes == {202, 300, 404, 500}
GetCodes == {200, 300, 404, 503}

\* values of the "result" key of a status payload
\* (a confidence number is held as the text str() gives it)
PhD == <<"P","h","D">>
C09 == <<"0",".","9">>
C05 == <<"0",".","5">>
ResultObjs ==
  { EmptyDict,
    [contents |-> <<>>],
    [contents |-> << [fields |-> [education |-> [valueString |-> PhD, confidence |-> C09]]] >>],
    [contents |-> << [fields |-> [language |-> [valueString |-> <<"e","n">>],
                                  work_skills |-> [confidence |-> C05]]] >>] }

\* the status spellings the service may send, each with the meaning the
\* service gives it ("missing": the payload has no status key)
StatusTable ==
  { [text |-> S_succeeded, class |-> "succeeded"],
    [text |-> S_Succeeded, class |-> "succeeded"],
    [text |-> S_failed, class |-> "failed"],
    [text |-> S_FAILED, class |-> "failed"],
    [text |-> S_running, class |-> "pending"],
    [text |-> S_Running, class |-> "pending"],
    [text |-> S_notstarted, class |-> "pending"],
    [text |-> S_cancelled, class |-> "pending"],
    [text |-> <<>>, class |-> "pending"],
    [text |-> None, class |-> "pending"] }

\* the JSON object of a status response: pending payloads carry the status
\* only, terminal ones may also carry a "result" object
PayloadOf(e, withResult, r) ==
  IF e.text = None
  THEN EmptyDict
  ELSE IF withResult THEN [status |-> e.text, result |-> r] ELSE [status |-> e.text]

\* -------------------------------------------------------------- exceptions
Exc(type, msg) == [type |-> type, args |-> <<msg>>]
NoExc == [type |-> "None", args |-> <<>>]
Unset == [unset |-> TRUE]
IsSet(x) == "unset" \notin DOMAIN x

\* f"{v}" of an Optional[str]
Str(v) == IF v = None THEN <<"N","o","n","e">> ELSE v

\* ------------------------------------------------------------------ state
VARIABLES
  env,                       \* os.getenv values
  document_url,              \* st.text_input value
  path,                      \* what Path(document_url) is on disk
  pc,                        \* position of main()
  settings,                  \* Settings instance
  client,                    \* AzureContentUnderstandingClient instance
  response,                  \* return value of begin_analyze
  timeout_seconds,           \* poll_result parameter
  polling_interval_seconds,  \* poll_result parameter
  operation_location,        \* poll_result local
  start_time,                \* poll_result local
  elapsed_time,              \* poll_result local
  result,                    \* poll_result local / its return value
  exc,                       \* exception in flight or handled
  clock,                     \* time.time()
  sentAt,                    \* clock when the request in flight was sent
  wake,                      \* clock at which time.sleep may return
  wire,                      \* every HTTP request sent, in order
  inflight,                  \* HTTP requests sent and not yet answered
  served,                    \* what the service answered to each status GET
  sent,                      \* the JSON body of the last status answer
  sleeps,                    \* every time.sleep call, in order
  errlog,                    \* logger.error records
  ui,                        \* Streamlit elements rendered by the try block
  stderr                     \* lines printed to sys.stderr

vars == <<env, document_url, path, pc, settings, client, response,
          timeout_seconds, polling_interval_seconds, operation_location,
          start_time, elapsed_time, result, exc, clock, sentAt, wake, wire,
          inflight, served, sent, sleeps, errlog, ui, stderr>>

\* --------------------------------------------------------------- Settings
\* Settings.__post_init__: the exception it raises, or NoExc
Settings_post_init_NoPlaceholder(s) ==
  LET key_not_provided == ~Truthy(s.subscription_key)
      token_not_provided == ~Truthy(s.aad_token)
  IN IF ~Truthy(s.endpoint)
     THEN Exc("ValueError", "AZURE_CONTENT_UNDERSTANDING_ENDPOINT is not set in environment variables.")
     ELSE IF ~Truthy(s.analyzer_id)
     THEN Exc("ValueError", "AZURE_CONTENT_UNDERSTANDING_ANALYZER_ID is not set in environment variables.")
     ELSE IF key_not_provided /\ token_not_provided
     THEN Exc("ValueError", "Either AZURE_CONTENT_UNDERSTANDING_SUBSCRIPTION_KEY or AZURE_CONTENT_UNDERSTANDING_AAD_TOKEN must be provided.")
     ELSE NoExc
Settings_post_init_AnalyzerFirst(s) ==
  LET key_not_provided ==
        ~Truthy(s.subscription_key) \/ s.subscription_key = KEY_PLACEHOLDER
      token_not_provided ==
        ~Truthy(s.aad_token) \/ s.aad_token = TOKEN_PLACEHOLDER
  IN IF ~Truthy(s.analyzer_id)
     THEN Exc("ValueError", "AZURE_CONTENT_UNDERSTANDING_ANALYZER_ID is not set in environment variables.")
     ELSE IF ~Truthy(s.endpoint)
     THEN Exc("ValueError", "AZURE_CONTENT_UNDERSTANDING_ENDPOINT is not set in environment variables.")
     ELSE IF key_not_provided /\ token_not_provided
     THEN Exc("ValueError", "Either AZURE_CONTENT_UNDERSTANDING_SUBSCRIPTION_KEY or AZURE_CONTENT_UNDERSTANDING_AAD_TOKEN must be provided.")
     ELSE NoExc
Settings_post_init_NoAnalyzer(s) ==
  LET key_not_provided ==
        ~Truthy(s.subscription_key) \/ s.subscription_key = KEY_PLACEHOLDER
      token_not_provided ==
        ~Truthy(s.aad_token) \/ s.aad_token = TOKEN_PLACEHOLDER
  IN IF ~Truthy(s.endpoint)
     THEN Exc("ValueError", "AZURE_CONTENT_UNDERSTANDING_ENDPOINT is not set in environment variables.")
     ELSE IF key_not_provided /\ token_not_provided
     THEN Exc("ValueError", "Either AZURE_CONTENT_UNDERSTANDING_SUBSCRIPTION_KEY or AZURE_CONTENT_UNDERSTANDING_AAD_TOKEN must be provided.")
     ELSE NoExc
Settings_post_init(s) ==
  LET key_not_provided ==
        ~Truthy(s.subscription_key) \/ s.subscription_key = KEY_PLACEHOLDER
      token_not_provided ==
        ~Truthy(s.aad_token) \/ s.aad_token = TOKEN_PLACEHOLDER
  IN IF ~Truthy(s.endpoint)
     THEN Exc("ValueError", "AZURE_CONTENT_UNDERSTANDING_ENDPOINT is not set in environment variables.")
     ELSE IF ~Truthy(s.analyzer_id)
     THEN Exc("ValueError", "AZURE_CONTENT_UNDERSTANDING_ANALYZER_ID is not set in environment variables.")
     ELSE IF key_not_provided /\ token_not_provided
     THEN Exc("ValueError", "Either AZURE_CONTENT_UNDERSTANDING_SUBSCRIPTION_KEY or AZURE_CONTENT_UNDERSTANDING_AAD_TOKEN must be provided.")
     ELSE NoExc

\* Settings.token_provider: None, or a callable returning aad_token
token_provider(s) ==
  IF s.aad_token = None
  THEN [is_none |-> TRUE, returns |-> None]
  ELSE [is_none |-> FALSE, returns |-> s.aad_token]

\* ----------------------------------------------------------------- client
_get_headers(subscription_key, api_token, x_ms_useragent) ==
  LET headers ==
        IF Truthy(subscription_key)
        THEN "Ocp-Apim-Subscription-Key" :> subscription_key
        ELSE "Authorization" :> (BEARER \o Str(api_token))
  IN Update(headers, "x-ms-useragent" :> x_ms_useragent)

\* _get_analyze_url with the analyzer id and the API version in each other's place
_get_analyze_url_Swapped(endpoint, api_version, analyzer_id) ==
  Str(endpoint) \o ANALYZERS_PATH \o Str(api_version) \o ANALYZE_QUERY \o Str(analyzer_id)

_get_analyze_url(endpoint, api_version, analyzer_id) ==
  Str(endpoint) \o ANALYZERS_PATH \o Str(analyzer_id) \o ANALYZE_QUERY \o Str(api_version)

\* AzureContentUnderstandingClient.__init__: the exception it raises, or NoExc
Client_init_error(endpoint, api_version, subscription_key, provider) ==
  IF ~Truthy(subscription_key) /\ provider.is_none
  THEN Exc("ValueError", "Either subscription key or token provider must be provided.")
  ELSE IF ~Truthy(api_version)
  THEN Exc("ValueError", "API version must be provided.")
  ELSE IF ~Truthy(endpoint)
  THEN Exc("ValueError", "Endpoint must be provided.")
  ELSE NoExc

\* the instance __init__ builds
Client_init(endpoint, api_version, subscription_key, provider) ==
  [ _endpoint |-> RStrip(endpoint, "/"),
    _api_version |-> api_version,
    _headers |-> _get_headers(subscription_key,
                              IF provider.is_none THEN None ELSE provider.returns,
                              X_MS_USERAGENT) ]

\* response.raise_for_status(): HTTPError for 4xx and 5xx, nothing otherwise
raise_for_status(code) ==
  IF 400 <= code /\ code < 500 THEN Exc("HTTPError", "Client Error")
  ELSE IF 500 <= code /\ code < 600 THEN Exc("HTTPError", "Server Error")
  ELSE NoExc

\* the comparisons of poll_result on the lowered status
IsSucceeded_Capital(status) == status = S_Succeeded
IsSucceeded(status) == status = S_succeeded
IsFailed(status) == status = S_failed

\* if not operation_location:
NoOperationLocation_IsNone(loc) == loc = None
NoOperationLocation(loc) == ~Truthy(loc)

\* elapsed_time > timeout_seconds
TimedOut_NonStrict(elapsed, timeout) == elapsed >= timeout
TimedOut_Reversed(elapsed, timeout) == timeout > elapsed
TimedOut(elapsed, timeout) == elapsed > timeout

\* ------------------------------------------------------------------- Init
Init ==
  /\ env \in [endpoint : EndpointValues, api_version : ApiVersionValues,
              subscription_key : KeyValues, aad_token : TokenValues,
              analyzer_id : AnalyzerValues]
  /\ document_url \in Targets
  /\ path \in PathsOf(document_url)
  /\ pc = "start"
  /\ settings = Unset
  /\ client = Unset
  /\ response = Unset
  /\ timeout_seconds = 0
  /\ polling_interval_seconds = 0
  /\ operation_location = <<>>
  /\ start_time = 0
  /\ elapsed_time = 0
  /\ result = Unset
  /\ exc = NoExc
  /\ clock = 0
  /\ sentAt = 0
  /\ wake = 0
  /\ wire = <<>>
  /\ inflight = 0
  /\ served = <<>>
  /\ sent = Unset
  /\ sleeps = <<>>
  /\ errlog = <<>>
  /\ ui = <<>>
  /\ stderr = <<>>

inputs == <<env, document_url, path>>
pollParams == <<timeout_seconds, polling_interval_seconds>>
pollLocals == <<operation_location, start_time, elapsed_time, result>>
timers == <<sentAt, wake>>
network == <<wire, inflight, served, sent>>
outputs == <<ui, stderr>>

\* ------------------------------------------------------------------ main
\* if st.button("Analyze") and document_url:
Button ==
  /\ pc = "start"
  /\ pc' = IF document_url # <<>> THEN "settings" ELSE "done"
  /\ UNCHANGED <<inputs, settings, client, response, pollParams, pollLocals,
                 exc, clock, timers, network, sleeps, errlog, outputs>>

\* settings = Settings(...)
LoadSettings ==
  /\ pc = "settings"
  /\ LET s == [endpoint |-> env.endpoint, api_version |-> env.api_version,
               subscription_key |-> env.subscription_key,
               aad_token |-> env.aad_token, analyzer_id |-> env.analyzer_id,
               file_location |-> document_url]
         e == Settings_post_init(s)
     IN IF e # NoExc
        THEN /\ exc' = e
             /\ pc' = "except"
             /\ UNCHANGED settings
        ELSE /\ settings' = s
             /\ pc' = "client"
             /\ UNCHANGED exc
  /\ UNCHANGED <<inputs, client, response, pollParams, pollLocals,
                 clock, timers, network, sleeps, errlog, outputs>>

\* client = AzureContentUnderstandingClient(...)
NewClient ==
  /\ pc = "client"
  /\ LET e == Client_init_error(settings.endpoint, settings.api_version,
                                settings.subscription_key, token_provider(settings))
     IN IF e # NoExc
        THEN /\ exc' = e
             /\ pc' = "except"
             /\ UNCHANGED client
        ELSE /\ client' = Client_init(settings.endpoint, settings.api_version,
                                      settings.subscription_key, token_provider(settings))
             /\ pc' = "begin"
             /\ UNCHANGED exc
  /\ UNCHANGED <<inputs, settings, response, pollParams, pollLocals,
                 clock, timers, network, sleeps, errlog, outputs>>

\* begin_analyze up to and including requests.post being sent
BeginAnalyze ==
  /\ pc = "begin"
  /\ LET file_location == settings.file_location
         analyze_url == _get_analyze_url(client._endpoint, client._api_version,
                                         settings.analyzer_id)
     IN IF path.kind = "dir"
        THEN \* Path.exists() is true, open() raises
             /\ exc' = Exc("IsADirectoryError", "Is a directory")
             /\ pc' = "except"
             /\ UNCHANGED <<wire, inflight, sentAt>>
        ELSE IF path.kind = "file"
        THEN /\ wire' = Append(wire,
                   [method |-> "POST", url |-> analyze_url,
                    headers |-> Update("Content-Type" :> OCTET_STREAM, client._headers),
                    body |-> [kind |-> "data", value |-> path.data]])
             /\ inflight' = inflight + 1
             /\ sentAt' = clock
             /\ pc' = "post_wait"
             /\ UNCHANGED exc
        ELSE IF StartsWith(file_location, HTTPS_PREFIX) \/ StartsWith(file_location, HTTP_PREFIX)
        THEN /\ wire' = Append(wire,
                   [method |-> "POST", url |-> analyze_url,
                    headers |-> Update("Content-Type" :> APPLICATION_JSON, client._headers),
                    body |-> [kind |-> "json", value |-> ("url" :> file_location)]])
             /\ inflight' = inflight + 1
             /\ sentAt' = clock
             /\ pc' = "post_wait"
             /\ UNCHANGED exc
        ELSE /\ exc' = Exc("ValueError", "file_location must be a valid file path or URL.")
             /\ pc' = "except"
             /\ UNCHANGED <<wire, inflight, sentAt>>
  /\ UNCHANGED <<inputs, settings, client, response, pollParams, pollLocals,
                 clock, wake, served, sent, sleeps, errlog, outputs>>

\* the service answers the POST; begin_analyze runs raise_for_status and returns
BeginAnalyzeReturn ==
  /\ pc = "post_wait"
  /\ \E code \in PostCodes,
        hdrs \in {EmptyDict, "operation-location" :> <<>>, "operation-location" :> OP_LOCATION} :
       LET e == raise_for_status(code)
       IN /\ inflight' = inflight - 1
          /\ IF e # NoExc
             THEN /\ exc' = e
                  /\ pc' = "except"
                  /\ UNCHANGED response
             ELSE /\ response' = [status_code |-> code, headers |-> hdrs]
                  /\ pc' = "poll"
                  /\ UNCHANGED exc
  /\ UNCHANGED <<inputs, settings, client, pollParams, pollLocals,
                 clock, timers, wire, served, sent, sleeps, errlog, outputs>>

\* ------------------------------------------------------------ poll_result
\* entry of poll_result: the operation-location check and start_time
PollStart ==
  /\ pc = "poll"
  /\ \E t \in 0..MaxTimeout, i \in 0..MaxInterval :
       /\ timeout_seconds' = t
       /\ polling_interval_seconds' = i
  /\ operation_location' = Get(response.headers, "operation-location", <<>>)
  /\ IF NoOperationLocation(operation_location')
     THEN /\ exc' = Exc("ValueError", "Operation location not found in response headers.")
          /\ pc' = "except"
          /\ UNCHANGED start_time
     ELSE /\ start_time' = clock
          /\ pc' = "loop"
          /\ UNCHANGED exc
  /\ UNCHANGED <<inputs, settings, client, response, elapsed_time, result,
                 clock, timers, network, sleeps, errlog, outputs>>

\* requests.get(operation_location, headers=self._headers)
StatusRequest(loc, hdrs) ==
  [method |-> "GET", url |-> loc, headers |-> hdrs,
   body |-> [kind |-> "none", value |-> <<>>]]

\* what one pass over the top of the loop puts on the wire: nothing when the
\* timeout check raises, the status GET otherwise
WireAfterCheck_GetFirst(timedOut, w, req) == Append(w, req)
WireAfterCheck(timedOut, w, req) == IF timedOut THEN w ELSE Append(w, req)

\* top of the while loop: the timeout check, then requests.get is sent
PollIteration ==
  /\ pc = "loop"
  /\ elapsed_time' = clock - start_time
  /\ wire' = WireAfterCheck(TimedOut(elapsed_time', timeout_seconds), wire,
                            StatusRequest(operation_location, client._headers))
  /\ IF TimedOut(elapsed_time', timeout_seconds)
     THEN /\ exc' = Exc("TimeoutError", "Operation timed out after {timeout_seconds} seconds.")
          /\ pc' = "except"
          /\ UNCHANGED <<inflight, sentAt>>
     ELSE /\ inflight' = inflight + 1
          /\ sentAt' = clock
          /\ pc' = "get_wait"
          /\ UNCHANGED exc
  /\ UNCHANGED <<inputs, settings, client, response, pollParams,
                 operation_location, start_time, result, clock, wake, served,
                 sent, sleeps, errlog, outputs>>

\* the service answers the GET (a round trip takes time); the rest of the
\* loop body runs up to return, raise or the call of time.sleep
PollResponse ==
  /\ pc = "get_wait"
  /\ clock > sentAt
  /\ inflight' = inflight - 1
  /\ \E code \in GetCodes :
       LET e == raise_for_status(code)
       IN IF e # NoExc
          THEN /\ served' = Append(served, [code |-> code, class |-> "error"])
               /\ exc' = e
               /\ pc' = "except"
               /\ UNCHANGED <<result, sent, sleeps, wake, errlog>>
          ELSE \E entry \in StatusTable, withResult \in BOOLEAN, r \in ResultObjs :
               /\ (entry.class = "pending" => ~withResult)
               /\ (~withResult \/ entry.class = "failed" => r = EmptyDict)
               /\ served' = Append(served, [code |-> code, class |-> entry.class])
               /\ sent' = PayloadOf(entry, withResult, r)
               /\ result' = sent'
               /\ LET status == Lower(Get(result', "status", <<>>))
                  IN IF IsSucceeded(status)
                     THEN /\ pc' = "extract"
                          /\ UNCHANGED <<exc, sleeps, wake, errlog>>
                     ELSE IF IsFailed(status)
                     THEN /\ errlog' = Append(errlog,
                                [msg |-> "Request failed. Response: {result}",
                                 result |-> result'])
                          /\ exc' = Exc("RuntimeError", "Request failed.")
                          /\ pc' = "except"
                          /\ UNCHANGED <<sleeps, wake>>
                     ELSE /\ sleeps' = Append(sleeps,
                                [secs |-> polling_interval_seconds,
                                 after |-> Len(wire)])
                          /\ wake' = clock + polling_interval_seconds
                          /\ pc' = "sleep"
                          /\ UNCHANGED <<exc, errlog>>
  /\ UNCHANGED <<inputs, settings, client, response, pollParams,
                 operation_location, start_time, elapsed_time, clock, sentAt,
                 wire, outputs>>

\* time.sleep(polling_interval_seconds) returns
SleepReturn ==
  /\ pc = "sleep"
  /\ clock >= wake
  /\ pc' = "loop"
  /\ UNCHANGED <<inputs, settings, client, response, pollParams, pollLocals,
                 exc, clock, timers, network, sleeps, errlog, outputs>>

\* ------------------------------------------------- extraction and display
NOT_FOUND == <<"n","o","t"," ","f","o","u","n","d">>
N_A == <<"N","/","A">>

\* if not contents:
NoContents_AtMostOne(contents) == Len(contents) <= 1
NoContents(contents) == contents = <<>>

\* "**<Label>:** {value} (Confidence: {confidence})" for one field
FieldLine_SkipAbsent(fields, name, label) ==
  LET obj == Get(fields, name, EmptyDict)
  IN [kind |-> IF name \in DOMAIN fields THEN "write" ELSE "skip", text |-> label,
      args |-> <<Get(obj, "valueString", NOT_FOUND), Get(obj, "confidence", N_A)>>]
FieldLine_ValueKey(fields, name, label) ==
  LET obj == Get(fields, name, EmptyDict)
  IN [kind |-> "write", text |-> label,
      args |-> <<Get(obj, "value", NOT_FOUND), Get(obj, "confidence", N_A)>>]
FieldLine(fields, name, label) ==
  LET obj == Get(fields, name, EmptyDict)
  IN [kind |-> "write", text |-> label,
      args |-> <<Get(obj, "valueString", NOT_FOUND), Get(obj, "confidence", N_A)>>]

\* the rest of the try block after poll_result returned
Extract ==
  /\ pc = "extract"
  /\ LET result_obj == Get(result, "result", EmptyDict)
         contents == Get(result_obj, "contents", <<>>)
     IN IF NoContents(contents)
        THEN ui' = Append(ui, [kind |-> "error",
                               text |-> "No contents found in the result.",
                               args |-> <<>>])
        ELSE LET fields == Get(contents[1], "fields", EmptyDict)
             IN ui' = ui \o
                  << [kind |-> "success", text |-> "Analysis completed successfully!", args |-> <<>>],
                     [kind |-> "markdown", text |-> "**Extracted Data:**", args |-> <<>>],
                     FieldLine(fields, "education", "**Education:**"),
                     FieldLine(fields, "language", "**Language:**"),
                     FieldLine(fields, "work_skills", "**Work Skills:**") >>
  /\ pc' = "done"
  /\ UNCHANGED <<inputs, settings, client, response, pollParams, pollLocals,
                 exc, clock, timers, network, sleeps, errlog, stderr>>

\* except Exception as e: st.error(...); print(e, file=sys.stderr)
Except ==
  /\ pc = "except"
  /\ ui' = Append(ui, [kind |-> "error", text |-> "An error occurred: {e}",
                       args |-> <<exc.args[1]>>])
  /\ stderr' = Append(stderr, exc.args[1])
  /\ pc' = "done"
  /\ UNCHANGED <<inputs, settings, client, response, pollParams, pollLocals,
                 exc, clock, timers, network, sleeps, errlog>>

\* ------------------------------------------------------------------ time
\* The wall clock advances while main() is blocked in a request or a sleep.
\* It is stopped once it can no longer change what poll_result does.
Tick ==
  /\ \/ pc = "post_wait" /\ clock < MaxStart
     \/ pc = "get_wait" /\ (clock <= sentAt \/ clock - start_time <= timeout_seconds)
     \/ pc = "sleep" /\ (clock < wake \/ clock - start_time <= timeout_seconds)
  /\ clock' = clock + 1
  /\ UNCHANGED <<inputs, pc, settings, client, response, pollParams, pollLocals,
                 exc, timers, network, sleeps, errlog, outputs>>

Next ==
  \/ Button
  \/ LoadSettings
  \/ NewClient
  \/ BeginAnalyze
  \/ BeginAnalyzeReturn
  \/ PollStart
  \/ PollIteration
  \/ PollResponse
  \/ SleepReturn
  \/ Extract
  \/ Except
  \/ Tick

Spec == Init /\ [][Next]_vars

\* the interpreter keeps running, the service answers every request and the
\* wall clock advances.  poll_result reads nothing of the configuration but
\* the headers, so the liveness runs start from the accepted configurations
\* with one URL target.
LiveInit ==
  /\ Init
  /\ env.endpoint = <<"h","t","t","p","s",":","/","/","c","u","/">>
  /\ env.api_version = DEFAULT_API_VERSION
  /\ env.analyzer_id = <<"c","v">>
  /\ env.aad_token = <<"t","1">>
  /\ document_url = HTTPS_PREFIX \o <<"d">>
  /\ path.kind = "absent"

LiveSpec == LiveInit /\ [][Next]_vars /\ WF_vars(Next) /\ WF_vars(Tick)

\* ---------------------------------------------- extraction on its own
\* The extractor is a function of the succeeded payload alone.  It is also
\* run on every shape of the three fields, from the state main() is in when
\* poll_result has just returned after one status GET.
FieldNames == {"education", "language", "work_skills"}
FieldValue ==
  [education |-> PhD, language |-> <<"e","n">>, work_skills |-> <<"s","q","l">>]
FieldConfidence ==
  [education |-> C09, language |-> C05, work_skills |-> <<"1",".","0">>]
FieldObjsOf(n) ==
  { EmptyDict,
    [valueString |-> FieldValue[n]],
    [confidence |-> FieldConfidence[n]],
    [valueString |-> FieldValue[n], confidence |-> FieldConfidence[n]] }
FieldMaps ==
  UNION { {f \in [S -> UNION {FieldObjsOf(n) : n \in FieldNames}] :
             \A n \in S : f[n] \in FieldObjsOf(n)} : S \in SUBSET FieldNames }
SucceededPayloads ==
  {[status |-> st, result |-> r] :
     st \in {S_succeeded, S_Succeeded},
     r \in ResultObjs \cup {[contents |-> <<EmptyDict>>]}
              \cup {[contents |-> <<[fields |-> f]>>] : f \in FieldMaps}}

ExtractInit ==
  /\ env = [endpoint |-> <<"h","t","t","p","s",":","/","/","c","u","/">>,
            api_version |-> DEFAULT_API_VERSION,
            subscription_key |-> <<"k","1">>, aad_token |-> None,
            analyzer_id |-> <<"c","v">>]
  /\ document_url = HTTPS_PREFIX \o <<"d">>
  /\ path = [kind |-> "absent", data |-> <<>>]
  /\ pc = "extract"
  /\ settings = [endpoint |-> env.endpoint, api_version |-> env.api_version,
                 subscription_key |-> env.subscription_key,
                 aad_token |-> env.aad_token, analyzer_id |-> env.analyzer_id,
                 file_location |-> document_url]
  /\ client = Client_init(settings.endpoint, settings.api_version,
                          settings.subscription_key, token_provider(settings))
  /\ response = [status_code |-> 202, headers |-> ("operation-location" :> OP_LOCATION)]
  /\ timeout_seconds = 0
  /\ polling_interval_seconds = 0
  /\ operation_location = OP_LOCATION
  /\ start_time = 0
  /\ elapsed_time = 0
  /\ sent \in SucceededPayloads
  /\ result = sent
  /\ exc = NoExc
  /\ clock = 1
  /\ sentAt = 0
  /\ wake = 0
  /\ wire = << [method |-> "POST",
                url |-> _get_analyze_url(client._endpoint, client._api_version,
                                         settings.analyzer_id),
                headers |-> Update("Content-Type" :> APPLICATION_JSON, client._headers),
                body |-> [kind |-> "json", value |-> ("url" :> document_url)]],
               StatusRequest(operation_location, client._headers) >>
  /\ inflight = 0
  /\ served = <<[code |-> 200, class |-> "succeeded"]>>
  /\ sleeps = <<>>
  /\ errlog = <<>>
  /\ ui = <<>>
  /\ stderr = <<>>

ExtractNext == Extract
ExtractSpec == ExtractInit /\ [][ExtractNext]_vars

\* ============================================================= properties
Ok2xx(code) == 200 <= code /\ code < 300
NumGets == Cardinality({i \in DOMAIN wire : wire[i].method = "GET"})
NumPosts == Cardinality({i \in DOMAIN wire : wire[i].method = "POST"})
Last(seq) == seq[Len(seq)]

\* poll_result has entered its loop (operation_location is only set there)
Polled == Truthy(operation_location)

\* the service answered "pending" N times with 2xx and then "succeeded"
PendingThenSucceeded ==
  /\ served # <<>>
  /\ Last(served).class = "succeeded" /\ Ok2xx(Last(served).code)
  /\ \A i \in 1..(Len(served) - 1) :
       served[i].class = "pending" /\ Ok2xx(served[i].code)

\* C1: when the service answers a non-terminal status N times and then
\* "succeeded", poll_result returns (no exception) the payload the service
\* sent, unmodified, after exactly N+1 status GETs and exactly N sleeps of
\* polling_interval_seconds; the i-th sleep lies between the i-th and the
\* (i+1)-th GET and no sleep follows the succeeded answer.
C1_Theorem ==
  PendingThenSucceeded =>
    LET N == Len(served) - 1
    IN /\ pc \in {"extract", "done"}
       /\ exc = NoExc
       /\ result = sent
       /\ NumGets = N + 1
       /\ Len(sleeps) = N
       /\ \A i \in 1..N :
            /\ sleeps[i].secs = polling_interval_seconds
            /\ sleeps[i].after = i + 1

C1_Witness ==
  /\ PendingThenSucceeded
  /\ Len(served) = 3
  /\ pc = "extract"
  /\ sent.status = S_Succeeded

\* every status answer so far was a 2xx answer with a non-terminal status
AllPending ==
  \A i \in DOMAIN served : served[i].class = "pending" /\ Ok2xx(served[i].code)

\* C2: for every timeout_seconds and polling_interval_seconds (also an
\* interval larger than the timeout), when every status answer is a 2xx
\* answer with a non-terminal status and the clock advances, poll_result
\* terminates, and it terminates with TimeoutError, raised only once the
\* elapsed time since start_time exceeds timeout_seconds.
C2_Theorem ==
  /\ [](Polled /\ AllPending /\ pc \in {"except", "done"} =>
          /\ exc.type = "TimeoutError"
          /\ elapsed_time > timeout_seconds
          /\ elapsed_time = clock - start_time)
  /\ (Polled ~> pc = "done")

C2_Witness ==
  /\ pc = "done"
  /\ exc.type = "TimeoutError"
  /\ served # <<>>
  /\ AllPending
  /\ polling_interval_seconds > timeout_seconds

\* the last status answer got past raise_for_status with a "failed" status
FailedAnswered ==
  /\ served # <<>>
  /\ Last(served).class = "failed"

\* e.args holds the object p besides the message
ErrorCarries(e, p) == \E i \in 2..Len(e.args) : e.args[i] = p

\* C3: when a status answer reports "failed", poll_result fails at once (no
\* further status GET and no sleep after that answer) with the error for a
\* remote failure, and the error raised carries the full payload of that answer.
C3_Claim ==
  FailedAnswered =>
    /\ pc \in {"except", "done"}
    /\ exc.type = "RuntimeError"
    /\ NumGets = Len(served)
    /\ Len(sleeps) = Len(served) - 1
    /\ ErrorCarries(exc, sent)

NumPendingAnswers == Cardinality({i \in DOMAIN served : served[i].class = "pending"})
NoErrorAnswer == \A i \in DOMAIN served : served[i].class # "error"

\* C4: a status is terminal iff its case-insensitive value is "succeeded" or
\* "failed".  Every other answer ("running", "notstarted", "cancelled", an
\* empty or missing status, in any letter case) is followed by a sleep and a
\* new loop iteration, every terminal answer is the last one, and when no
\* answer was an HTTP error the loop ends only on a succeeded answer, a
\* failed answer or the timeout.
C4_Theorem ==
  /\ Len(sleeps) = NumPendingAnswers
  /\ \A i \in DOMAIN served : served[i].class # "pending" => i = Len(served)
  /\ (served # <<>> /\ Last(served).class = "pending" =>
        \/ pc \in {"sleep", "loop", "get_wait"}
        \/ pc \in {"except", "done"} /\ exc.type = "TimeoutError")
  /\ (served # <<>> /\ Last(served).class = "succeeded" =>
        pc \in {"extract", "done"} /\ exc = NoExc)
  /\ (served # <<>> /\ Last(served).class = "failed" =>
        pc \in {"except", "done"} /\ exc.type = "RuntimeError")
  /\ (Polled /\ NoErrorAnswer /\ pc \in {"extract", "except", "done"} =>
        \/ served # <<>> /\ Last(served).class \in {"succeeded", "failed"}
        \/ exc.type = "TimeoutError")

C4_Witness ==
  /\ Get(sent, "status", None) = S_cancelled
  /\ Len(served) = 2
  /\ pc = "get_wait"
  /\ Len(sleeps) = 2

\* the targets drawn that are no http:// or https:// URL
NonUrlTargets ==
  { <<"f","t","p",":","/","/","d">>,
    <<"H","T","T","P","S",":","/","/","d">>,
    <<"c","v",".","p","d","f">> }
InvalidTargetMessage == "file_location must be a valid file path or URL."

\* C5: begin_analyze with a target that is neither an existing local path nor
\* prefixed "http://" or "https://" fails with the invalid-target ValueError
\* and no HTTP request (no POST, no GET) is issued in that run.
C5_Theorem ==
  (document_url \in NonUrlTargets /\ path.kind = "absent") =>
    /\ wire = <<>>
    /\ inflight = 0
    /\ pc \notin {"post_wait", "poll", "loop", "get_wait", "sleep", "extract"}
    /\ (IsSet(client) /\ pc \in {"except", "done"} =>
          exc = Exc("ValueError", InvalidTargetMessage))

C5_Witness ==
  /\ document_url = <<"H","T","T","P","S",":","/","/","d">>
  /\ IsSet(client)
  /\ pc = "done"
  /\ exc = Exc("ValueError", InvalidTargetMessage)
  /\ wire = <<>>

\* a value that is missing or empty in the environment
Missing(v) == v = None \/ v = <<>>
BadConfig ==
  \/ Missing(env.endpoint)
  \/ Missing(env.analyzer_id)
  \/ Missing(env.subscription_key) /\ Missing(env.aad_token)
ConfigMessages ==
  { "AZURE_CONTENT_UNDERSTANDING_ENDPOINT is not set in environment variables.",
    "AZURE_CONTENT_UNDERSTANDING_ANALYZER_ID is not set in environment variables.",
    "Either AZURE_CONTENT_UNDERSTANDING_SUBSCRIPTION_KEY or AZURE_CONTENT_UNDERSTANDING_AAD_TOKEN must be provided." }

\* C6: when the endpoint is missing or empty, or the analyzer id is missing
\* or empty, or both the subscription key and the token are absent, the
\* loader fails with its ValueError, no Settings or client is built, and no
\* HTTP request is ever sent in that analysis request.
C6_Theorem ==
  BadConfig =>
    /\ wire = <<>>
    /\ inflight = 0
    /\ ~IsSet(settings)
    /\ ~IsSet(client)
    /\ pc \in {"start", "settings", "except", "done"}
    /\ (pc \in {"except", "done"} /\ document_url # <<>> =>
          exc.type = "ValueError" /\ exc.args[1] \in ConfigMessages)

C6_Witness ==
  /\ pc = "done"
  /\ env.analyzer_id = None
  /\ Truthy(env.endpoint)
  /\ exc = Exc("ValueError", "AZURE_CONTENT_UNDERSTANDING_ANALYZER_ID is not set in environment variables.")
  /\ stderr # <<>>

\* a credential the loader accepts as provided
Provided(v, placeholder) == v # None /\ v # <<>> /\ v # placeholder
AuthHeaders == {"Ocp-Apim-Subscription-Key", "Authorization"}

\* C7: every HTTP request sent (the POST and every GET) carries exactly one
\* authorization header and the client tag header: the subscription-key
\* header when the subscription key is the provided credential, the Bearer
\* Authorization header when the token is the provided credential; the GETs
\* carry the same auth headers as the POST.
C7_Claim ==
  \A i \in DOMAIN wire :
    LET h == wire[i].headers
        keyOnly == Provided(env.subscription_key, KEY_PLACEHOLDER)
                     /\ ~Provided(env.aad_token, TOKEN_PLACEHOLDER)
        tokenOnly == Provided(env.aad_token, TOKEN_PLACEHOLDER)
                     /\ ~Provided(env.subscription_key, KEY_PLACEHOLDER)
    IN /\ Cardinality((DOMAIN h) \cap AuthHeaders) = 1
       /\ "x-ms-useragent" \in DOMAIN h
       /\ h["x-ms-useragent"] = X_MS_USERAGENT
       /\ (keyOnly => /\ "Ocp-Apim-Subscription-Key" \in DOMAIN h
                      /\ h["Ocp-Apim-Subscription-Key"] = env.subscription_key)
       /\ (tokenOnly => /\ "Authorization" \in DOMAIN h
                        /\ h["Authorization"] = BEARER \o env.aad_token)
       /\ \A k \in AuthHeaders :
            /\ k \in DOMAIN h <=> k \in DOMAIN wire[1].headers
            /\ k \in DOMAIN h => h[k] = wire[1].headers[k]

\* begin_analyze returned a 2xx response without operation-location header
ReturnedWithoutLocation ==
  /\ IsSet(response)
  /\ Ok2xx(response.status_code)
  /\ "operation-location" \notin DOMAIN response.headers
NoLocationMessage == "Operation location not found in response headers."

\* C8 (as claimed): when the POST gets a 2xx response without the
\* operation-location header, begin_analyze itself fails (it does not
\* return), and no status GET is issued.
C8_Claim == ~ReturnedWithoutLocation /\ (ReturnedWithoutLocation => NumGets = 0)

\* C8 (amended): when the POST gets a 2xx response without the
\* operation-location header, begin_analyze returns that response; the
\* following poll_result raises the missing-location ValueError before its
\* loop, so no status GET is ever issued and nothing is slept.
C8_Theorem ==
  ReturnedWithoutLocation =>
    /\ NumGets = 0
    /\ served = <<>>
    /\ sleeps = <<>>
    /\ pc \in {"poll", "except", "done"}
    /\ (pc # "poll" => exc = Exc("ValueError", NoLocationMessage))

C8_Witness ==
  /\ ReturnedWithoutLocation
  /\ pc = "done"
  /\ exc = Exc("ValueError", NoLocationMessage)
  /\ Len(wire) = 1

\* C9: a non-2xx response to the POST or to any GET ends the request at once
\* with the HTTP error: begin_analyze does not return it, a non-2xx status
\* answer is the last one, it is not polled again, and no request follows.
C9_Claim ==
  /\ (IsSet(response) => Ok2xx(response.status_code))
  /\ \A i \in DOMAIN served :
       ~Ok2xx(served[i].code) =>
         /\ i = Len(served)
         /\ pc \in {"except", "done"}
         /\ exc.type = "HTTPError"
         /\ NumGets = i
         /\ Len(sleeps) = i - 1

\* C10: every error outcome of a run is both rendered (a failure message with
\* the error text) and printed to stderr; no error is rendered without being
\* printed, and none leaves main() uncaught.
C10_Claim ==
  /\ (pc = "done" /\ exc # NoExc =>
        /\ \E i \in DOMAIN ui : ui[i].kind = "error" /\ ui[i].args = <<exc.args[1]>>
        /\ stderr = <<exc.args[1]>>)
  /\ \A i \in DOMAIN ui : ui[i].kind = "error" => stderr # <<>>

\* poll_result returned a succeeded payload and the try block has finished
Extracted ==
  /\ pc = "done"
  /\ exc = NoExc
  /\ served # <<>>
  /\ Last(served).class = "succeeded"

\* the payload the service sent has result.contents / has it as an empty list
ContentsPresent == "result" \in DOMAIN sent /\ "contents" \in DOMAIN sent["result"]
ContentsEmpty == ContentsPresent /\ sent["result"]["contents"] = <<>>
NoContentsMessage == "No contents found in the result."
NoContentsShown == \E i \in DOMAIN ui : ui[i].kind = "error" /\ ui[i].text = NoContentsMessage

\* C11 (as claimed): extraction fails for empty contents if and only if
\* result.contents is present and empty; a succeeded result without the
\* contents key (or without the result key) does not produce that failure.
C11_Claim == Extracted => (NoContentsShown <=> ContentsEmpty)

\* C11 (amended): extraction reports "No contents found in the result." if
\* and only if result.contents is empty or absent (the contents key or the
\* result key missing); an empty contents list always produces it, and then
\* nothing else is rendered.
C11_Theorem ==
  Extracted =>
    /\ NoContentsShown <=> (ContentsEmpty \/ ~ContentsPresent)
    /\ NoContentsShown => Len(ui) = 1

C11_Witness ==
  /\ Extracted
  /\ ~ContentsPresent
  /\ "result" \in DOMAIN sent
  /\ NoContentsShown

\* the first element of result.contents of the payload sent, and what the
\* payload holds for a field
FirstContent == sent["result"]["contents"][1]
HasSub(n, sub) ==
  /\ "fields" \in DOMAIN FirstContent
  /\ n \in DOMAIN FirstContent["fields"]
  /\ sub \in DOMAIN FirstContent["fields"][n]
ExpectedArgs(n) ==
  << IF HasSub(n, "valueString") THEN FirstContent["fields"][n]["valueString"]
     ELSE <<"n","o","t"," ","f","o","u","n","d">>,
     IF HasSub(n, "confidence") THEN FirstContent["fields"][n]["confidence"]
     ELSE <<"N","/","A">> >>

\* C12: for education, language and work_skills independently, and for every
\* combination of field / valueString / confidence being present or absent,
\* the displayed value is the field's valueString when present and
\* "not found" otherwise, the displayed confidence is its confidence when
\* present and "N/A" otherwise, and extraction never fails for an absent
\* field or sub-field.
C12_Theorem ==
  (pc = "done" /\ ContentsPresent /\ ~ContentsEmpty) =>
    /\ exc = NoExc
    /\ stderr = <<>>
    /\ Len(ui) = 5
    /\ ui[1].kind = "success"
    /\ ui[3] = [kind |-> "write", text |-> "**Education:**", args |-> ExpectedArgs("education")]
    /\ ui[4] = [kind |-> "write", text |-> "**Language:**", args |-> ExpectedArgs("language")]
    /\ ui[5] = [kind |-> "write", text |-> "**Work Skills:**", args |-> ExpectedArgs("work_skills")]

C12_Witness ==
  /\ pc = "done"
  /\ ContentsPresent
  /\ sent["result"]["contents"] =
       << [fields |-> [education |-> [valueString |-> PhD, confidence |-> C09]]] >>
  /\ ui[3].args = <<PhD, C09>>
  /\ ui[4].args = << <<"n","o","t"," ","f","o","u","n","d">>, <<"N","/","A">> >>
  /\ ui[5].args = ui[4].args

\* C13: within one analysis request no HTTP request is sent before the
\* configuration is validated, at most one POST is sent and it comes first,
\* no status GET is sent before the POST has returned a 2xx response,
\* extraction starts only after poll_result returned a succeeded result, and
\* at most one HTTP request is in flight at any moment.
C13_Claim ==
  /\ (wire # <<>> => IsSet(settings) /\ IsSet(client))
  /\ NumPosts <= 1
  /\ (wire # <<>> => wire[1].method = "POST")
  /\ (NumGets > 0 => IsSet(response) /\ Ok2xx(response.status_code))
  /\ (pc = "extract" => served # <<>> /\ Last(served).class = "succeeded")
  /\ inflight <= 1
  /\ (inflight = 1 <=> pc \in {"post_wait", "get_wait"})

KeyProvided == Provided(env.subscription_key, KEY_PLACEHOLDER)
TokenProvided == Provided(env.aad_token, TOKEN_PLACEHOLDER)
SettingsOfEnv ==
  [endpoint |-> env.endpoint, api_version |-> env.api_version,
   subscription_key |-> env.subscription_key, aad_token |-> env.aad_token,
   analyzer_id |-> env.analyzer_id, file_location |-> document_url]

\* C14 (as claimed): every Settings that passes validation has a non-empty
\* endpoint and analyzer_id and exactly one credential (subscription key or
\* token, not both and not neither).
C14_Claim ==
  IsSet(settings) =>
    /\ ~Missing(settings.endpoint)
    /\ ~Missing(settings.analyzer_id)
    /\ (KeyProvided \/ TokenProvided)
    /\ ~(KeyProvided /\ TokenProvided)

\* C14 (amended): every Settings that passes validation holds the values of
\* the environment, has a non-empty endpoint and analyzer_id and at least one
\* provided credential (subscription key, token, or both); once created it
\* is never changed during the request.
C14_Theorem ==
  /\ [](IsSet(settings) =>
          /\ settings = SettingsOfEnv
          /\ ~Missing(settings.endpoint)
          /\ ~Missing(settings.analyzer_id)
          /\ (KeyProvided \/ TokenProvided))
  /\ [][IsSet(settings) => settings' = settings]_vars

C14_Witness ==
  /\ IsSet(settings)
  /\ KeyProvided
  /\ TokenProvided
  /\ pc = "done"
  /\ wire # <<>>

\* the loader ran and raised
LoaderFailed == ~IsSet(settings) /\ pc \in {"except", "done"} /\ document_url # <<>>
ExpectedConfigMessage ==
  IF Missing(env.endpoint)
  THEN "AZURE_CONTENT_UNDERSTANDING_ENDPOINT is not set in environment variables."
  ELSE IF Missing(env.analyzer_id)
  THEN "AZURE_CONTENT_UNDERSTANDING_ANALYZER_ID is not set in environment variables."
  ELSE "Either AZURE_CONTENT_UNDERSTANDING_SUBSCRIPTION_KEY or AZURE_CONTENT_UNDERSTANDING_AAD_TOKEN must be provided."

\* C17: when several mandatory values are missing at once the loader's error
\* names the first one in the order endpoint, analyzer id, credentials; and
\* the outcome is a function of the input values: the loader fails exactly
\* when a mandatory value is missing, with the message fixed by the inputs,
\* and otherwise yields the Settings made of the inputs.
C17_Theorem ==
  /\ (LoaderFailed =>
        /\ exc = Exc("ValueError", ExpectedConfigMessage)
        /\ (Missing(env.endpoint) \/ Missing(env.analyzer_id)
              \/ ~(KeyProvided \/ TokenProvided)))
  /\ (IsSet(settings) =>
        /\ settings = SettingsOfEnv
        /\ ~Missing(env.endpoint) /\ ~Missing(env.analyzer_id)
        /\ (KeyProvided \/ TokenProvided))

C17_Witness ==
  /\ LoaderFailed
  /\ pc = "done"
  /\ env.endpoint = <<>>
  /\ env.analyzer_id = None
  /\ env.subscription_key = None
  /\ env.aad_token = None
  /\ stderr = <<"AZURE_CONTENT_UNDERSTANDING_ENDPOINT is not set in environment variables.">>

TimeoutRaised == exc.type = "TimeoutError"

\* C15: when poll_result fails with TimeoutError the client only leaves the
\* loop: the iteration that raises sends nothing, no request is in flight or
\* sent afterwards, and nothing but the POST and status GETs (no cancel
\* request) was ever sent, so the remote job is not touched by the timeout.
C15_Theorem ==
  /\ [](\A i \in DOMAIN wire : wire[i].method \in {"POST", "GET"})
  /\ [](TimeoutRaised => inflight = 0 /\ NumGets = Len(served)
                           /\ pc \in {"except", "done"})
  /\ [][TimeoutRaised' => wire' = wire]_vars

C15_Witness ==
  /\ TimeoutRaised
  /\ pc = "done"
  /\ served # <<>>
  /\ Last(served).class = "pending"
  /\ Len(wire) = 1 + Len(served)

\* C19: the timeout is tested only at the top of an iteration, before the
\* GET, with a strict comparison.  An iteration that starts with
\* elapsed <= timeout_seconds sends the GET, one that starts with
\* elapsed > timeout_seconds raises TimeoutError and sends nothing; the answer
\* to a GET that was sent is always acted on, so a succeeded (failed) answer
\* arriving after timeout_seconds have elapsed is returned (raised as the
\* failure) and never replaced by TimeoutError.
C19_Theorem ==
  /\ [](pc = "get_wait" =>
          elapsed_time <= timeout_seconds /\ elapsed_time = sentAt - start_time)
  /\ [](TimeoutRaised => elapsed_time > timeout_seconds)
  /\ [][pc = "loop" /\ pc' # "loop" =>
          IF clock - start_time > timeout_seconds
          THEN TimeoutRaised' /\ wire' = wire /\ pc' = "except"
          ELSE ~TimeoutRaised' /\ Len(wire') = Len(wire) + 1 /\ pc' = "get_wait"]_vars
  /\ [][pc = "get_wait" /\ pc' # "get_wait" => ~TimeoutRaised']_vars
  /\ [](served # <<>> /\ Last(served).class = "succeeded" =>
          pc \in {"extract", "done"} /\ exc = NoExc /\ result = sent)
  /\ [](served # <<>> /\ Last(served).class = "failed" =>
          pc \in {"except", "done"} /\ exc.type = "RuntimeError")

\* a succeeded answer that arrived after the timeout had elapsed, to a GET
\* sent with elapsed = timeout_seconds
C19_Witness ==
  /\ pc = "extract"
  /\ Last(served).class = "succeeded"
  /\ clock - start_time > timeout_seconds
  /\ elapsed_time = timeout_seconds
  /\ timeout_seconds > 0

SuccessShown == \E i \in DOMAIN ui : ui[i].kind = "success"
ErrorShown == \E i \in DOMAIN ui : ui[i].kind = "error"
FieldLinesShown == {i \in DOMAIN ui : ui[i].kind = "write"}

\* C16: a run is all-or-nothing.  The success display appears only when
\* submit, poll and extract all completed without error, and then all three
\* fields (education, language, work_skills) are shown together; no run shows
\* both the success display and an error message, and no run shows only some
\* of the three fields.
C16_Theorem ==
  /\ ~(SuccessShown /\ ErrorShown)
  /\ Cardinality(FieldLinesShown) \in {0, 3}
  /\ (SuccessShown <=> Cardinality(FieldLinesShown) = 3)
  /\ (pc # "done" => ui = <<>>)
  /\ (SuccessShown =>
        /\ {ui[i].text : i \in FieldLinesShown}
             = {"**Education:**", "**Language:**", "**Work Skills:**"}
        /\ exc = NoExc
        /\ stderr = <<>>
        /\ NumPosts = 1
        /\ served # <<>>
        /\ Last(served).class = "succeeded"
        /\ ContentsPresent /\ ~ContentsEmpty)
  /\ (ErrorShown => Len(ui) = 1)

C16_Witness ==
  /\ pc = "done"
  /\ SuccessShown
  /\ Len(ui) = 5
  /\ "fields" \in DOMAIN FirstContent
  /\ DOMAIN FirstContent["fields"] = {"education"}

\* the first request of a run, its content type, and the two request shapes
FirstRequest == wire[1]
ContentTypeSent == FirstRequest.headers["Content-Type"]
UrlPrefixed ==
  document_url \in {<<"h","t","t","p","s",":","/","/","d">>, <<"h","t","t","p",":","/","/","d">>}
FileShape ==
  /\ FirstRequest.body = [kind |-> "data", value |-> path.data]
  /\ ContentTypeSent = <<"application/octet-stream">>
UrlShape ==
  /\ FirstRequest.body = [kind |-> "json", value |-> [url |-> document_url]]
  /\ ContentTypeSent = <<"application/json">>
RequestShape ==
  /\ FirstRequest.method = "POST"
  /\ NumPosts = 1
  /\ IF path.kind = "file" THEN FileShape ELSE UrlPrefixed /\ UrlShape
AnalyzeSuffix ==
  <<"/","c","o","n","t","e","n","t","u","n","d","e","r","s","t","a","n","d","i","n","g">>
    \o <<"/","a","n","a","l","y","z","e","r","s","/">> \o env.analyzer_id
    \o <<":","a","n","a","l","y","z","e">> \o <<"?","a","p","i","-","v","e","r","s","i","o","n","=">>
    \o env.api_version

\* the configured endpoint without its trailing slashes: the longest prefix
\* that does not end in "/"
EndpointNoSlash ==
  LET e == env.endpoint
      k == CHOOSE n \in 0..Len(e) :
             /\ \A i \in (n + 1)..Len(e) : e[i] = "/"
             /\ (n > 0 => e[n] # "/")
  IN SubSeq(e, 1, k)

\* C18 (as claimed): begin_analyze selects exactly one request shape per
\* target: for an existing local path the POST body is the file's content
\* byte-for-byte with Content-Type application/octet-stream (existence is
\* checked before the URL prefix); otherwise, for a target prefixed http://
\* or https://, the body is the JSON object {"url": target} with Content-Type
\* application/json; the POST goes to
\* {endpoint}/contentunderstanding/analyzers/{analyzerId}:analyze?api-version={apiVersion}
\* with {endpoint} the configured endpoint, and an existing path always
\* yields a POST.
C18_Claim ==
  /\ (wire # <<>> =>
        /\ RequestShape
        /\ FirstRequest.url = env.endpoint \o AnalyzeSuffix)
  /\ (IsSet(client) /\ path.kind # "absent" /\ pc \in {"except", "done"} =>
        wire # <<>>)

\* C18 (amended): the same request shapes, for an existing local file (an
\* existing directory raises on open and no request is sent), and the POST
\* goes to the analyze URL built from the configured endpoint with its
\* trailing slashes removed.
C18_Theorem ==
  /\ (wire # <<>> =>
        /\ RequestShape
        /\ FirstRequest.url = EndpointNoSlash \o AnalyzeSuffix)
  /\ (path.kind = "dir" => wire = <<>>)
  /\ (IsSet(client) /\ pc \in {"except", "done"}
        /\ (path.kind = "file" \/ (path.kind = "absent" /\ UrlPrefixed)) =>
        wire # <<>>)

\* a target that looks like a URL and exists on disk was posted as file bytes
C18_Witness ==
  /\ document_url = <<"h","t","t","p","s",":","/","/","d">>
  /\ path.kind = "file"
  /\ pc = "done"
  /\ wire # <<>>
  /\ FirstRequest.body = [kind |-> "data", value |-> <<37, 80, 68, 70>>]
  /\ ContentTypeSent = <<"application/octet-stream">>
  /\ FirstRequest.url = <<"h","t","t","p","s",":","/","/","c","u">> \o AnalyzeSuffix

====
